---- MODULE Spec2Model ----
(***************************************************************************)
(* hetznerdns: a command-line client for the Hetzner DNS REST API.         *)
(*                                                                         *)
(* The model follows one user's machine over successive invocations of    *)
(* the binary: the configuration file under the home directory persists    *)
(* between invocations, everything else (viper's registry, the package     *)
(* globals configDir/configFile, the API client, the requests sent) lives  *)
(* for one process.  The provider is the environment: each HTTP request    *)
(* is answered by any response of a bounded set.                           *)
(*                                                                         *)
(* Strings are sequences of one-character strings, so that ToLower,        *)
(* TrimSuffix, Sprintf and the YAML scalar syntax act on characters.       *)
(***************************************************************************)
EXTENDS Integers, Sequences, FiniteSets, TLC

VARIABLES
    pc,          \* where the process stands: "idle", "load", ..., "done"
    cmd,         \* the subcommand of the running invocation
    args,        \* its flags and positional arguments
    env,         \* the process environment: HOME, HETZNER_DNS_API_TOKEN, write access
    dir,         \* ~/.config/hetznerdns: "absent" or "present"
    file,        \* ~/.config/hetznerdns/config.yaml: Absent or [text, mode]
    viperSet,    \* viper's override layer for api_token (viper.Set)
    configFile,  \* the package-level variable configFile ("" until LoadConfig)
    cfg,         \* what LoadConfig returned: [token, err, read]
    client,      \* the api.Client of the process: [made, apiToken]
    zones,       \* the zone list GetZones decoded last
    resolved,    \* what resolveZoneID returned: [id, err]
    byName,      \* what Client.GetZoneIDByName returned: [id, err]
    reqs,        \* the HTTP requests the process sent, in order
    result,      \* what the last client operation returned
    reported,    \* an error message was printed
    exitCode,    \* the process exit status (-1 while it runs)
    out,         \* what config show or llmhelp printed
    saved,       \* history: the last successful SaveConfig, [tok, how]
    call,        \* the client operation called last, with its argument
    answer,      \* the response the provider gave to the last request
    required     \* the flags cobra holds as required, per command

vars == <<pc, cmd, args, env, dir, file, viperSet, configFile, cfg, client,
          zones, resolved, byName, reqs, result, reported, exitCode, out, saved,
          call, answer, required>>

(***************************************************************************)
(* Strings                                                                 *)
(***************************************************************************)
Empty == <<>>

\* unicode.ToLower on the characters of the model's alphabet
LowerChar(c) == CASE c = "A" -> "a" [] c = "B" -> "b" [] OTHER -> c

RECURSIVE ToLower(_)
ToLower(s) == IF s = <<>> THEN <<>> ELSE <<LowerChar(Head(s))>> \o ToLower(Tail(s))

\* strings.TrimSuffix(s, suffix) for a one-character suffix: removes it once.
TrimSuffix(s, suffix) ==
    IF Len(s) > 0 /\ s[Len(s)] = suffix THEN SubSeq(s, 1, Len(s) - 1) ELSE s

\* strings.ToLower(strings.TrimSuffix(x, ".")), as both phases of name matching write it
Normalize(s) == ToLower(TrimSuffix(s, "."))

(***************************************************************************)
(* JSON documents, as encoding/json decodes them into interface{}          *)
(***************************************************************************)
JMissing == [t |-> "missing"]
JNull == [t |-> "null"]
JStr(s) == [t |-> "string", s |-> s]
JNum(n) == [t |-> "number", n |-> n]
JArr(es) == [t |-> "array", elems |-> es]
JZone(id, name, ttl, rc) ==
    [t |-> "object", id |-> id, name |-> name, ttl |-> ttl, records_count |-> rc]
JRecord(id, ty, name, value, ttl, zid, created, modified) ==
    [t |-> "object", id |-> id, type |-> ty, name |-> name, value |-> value,
     ttl |-> ttl, zone_id |-> zid, created |-> created, modified |-> modified]
\* the response document: an object with (some of) the envelope keys, or a
\* body json.Decode rejects
JBody(zs, rs, r) == [t |-> "object", zones |-> zs, records |-> rs, record |-> r]
NotJSON == [t |-> "notjson"]

\* v, ok := m[key].(string)
AsString(v) == IF v.t = "string" THEN v.s ELSE Empty
\* v, ok := m[key].(float64); int(v)
AsInt(v) == IF v.t = "number" THEN v.n ELSE 0

(***************************************************************************)
(* Errors                                                                  *)
(***************************************************************************)
NoErr == [kind |-> "none"]
Pending == [kind |-> "pending"]
TransportErr == [kind |-> "transport"]
\* an error message that names the status only
ApiErr_StatusOnly(resp) == [kind |-> "api", status |-> resp.status, body |-> JMissing]

\* fmt.Errorf("API error: %s, status code: %d", string(body), resp.StatusCode)
ApiErr(resp) == [kind |-> "api", status |-> resp.status, body |-> resp.body]
\* the error json.Decode / json.Unmarshal returned
DecodeErr == [kind |-> "decode"]
\* fmt.Errorf("unexpected response format: ...")
FormatErr(key) == [kind |-> "format", key |-> key]
\* fmt.Errorf("could not find zone with ID or name '%s'", ...)
NotFoundErr(what) == [kind |-> "notfound", input |-> what]

(***************************************************************************)
(* api.Client                                                              *)
(***************************************************************************)
NoClient == [made |-> FALSE, apiToken |-> Empty]
NewClient(apiToken) == [made |-> TRUE, apiToken |-> apiToken]

Zone(id, name, ttl, rc) == [ID |-> id, Name |-> name, TTL |-> ttl, RecordsCount |-> rc]

\* the per-element extraction of GetZones
ZoneFromMap(m) ==
    Zone(AsString(m.id), AsString(m.name), AsInt(m.ttl), AsInt(m.records_count))

\* the loop of GetZones over zonesData: non-objects are skipped
RECURSIVE DecodeZones(_)
DecodeZones(elems) ==
    IF elems = <<>> THEN <<>>
    ELSE IF Head(elems).t # "object" THEN DecodeZones(Tail(elems))
    ELSE <<ZoneFromMap(Head(elems))>> \o DecodeZones(Tail(elems))

\* Client.GetZones on the response the provider gave: [zones, err]
GetZones(resp) ==
    IF ~resp.ok THEN [zones |-> <<>>, err |-> TransportErr]
    ELSE IF resp.status # 200 THEN [zones |-> <<>>, err |-> ApiErr(resp)]
    ELSE IF resp.body.t # "object" THEN [zones |-> <<>>, err |-> DecodeErr]
    ELSE IF resp.body.zones.t # "array" THEN [zones |-> <<>>, err |-> FormatErr("zones")]
    ELSE [zones |-> DecodeZones(resp.body.zones.elems), err |-> NoErr]

\* for _, zone := range zones { if zone.ID == zoneIDOrName {...} }: the index
\* of the first hit from i on, 0 when the loop runs out
RECURSIVE ScanID(_, _, _)
ScanID(zs, zoneIDOrName, i) ==
    IF i > Len(zs) THEN 0
    ELSE IF zs[i].ID = zoneIDOrName THEN i
    ELSE ScanID(zs, zoneIDOrName, i + 1)

\* a loop that keeps the last hit instead of returning at the first
RECURSIVE ScanName_Last(_, _, _)
ScanName_Last(zs, normalizedInput, i) ==
    IF i > Len(zs) THEN 0
    ELSE LET later == ScanName_Last(zs, normalizedInput, i + 1)
         IN  IF later # 0 THEN later
             ELSE IF ToLower(TrimSuffix(zs[i].Name, ".")) = normalizedInput THEN i
             ELSE 0

\* for _, zone := range zones { if normalized zone.Name == normalizedInput {...} }
RECURSIVE ScanName(_, _, _)
ScanName(zs, normalizedInput, i) ==
    IF i > Len(zs) THEN 0
    ELSE IF ToLower(TrimSuffix(zs[i].Name, ".")) = normalizedInput THEN i
    ELSE ScanName(zs, normalizedInput, i + 1)

Found(id) == [id |-> id, err |-> NoErr]
Failed(e) == [id |-> Empty, err |-> e]

\* variants of resolveZoneID a slip would produce: the name phase first, the
\* id phase normalized, the name phase exact
RECURSIVE ScanIDNormalized(_, _, _)
ScanIDNormalized(zs, zoneIDOrName, i) ==
    IF i > Len(zs) THEN 0
    ELSE IF Normalize(zs[i].ID) = Normalize(zoneIDOrName) THEN i
    ELSE ScanIDNormalized(zs, zoneIDOrName, i + 1)

RECURSIVE ScanNameExact(_, _, _)
ScanNameExact(zs, name, i) ==
    IF i > Len(zs) THEN 0
    ELSE IF zs[i].Name = name THEN i
    ELSE ScanNameExact(zs, name, i + 1)

resolveZoneID_NameFirst(got, zoneIDOrName) ==
    IF got.err.kind # "none" THEN Failed(got.err)
    ELSE LET j == ScanName(got.zones, Normalize(zoneIDOrName), 1)
             i == ScanID(got.zones, zoneIDOrName, 1)
         IN  IF j # 0 THEN Found(got.zones[j].ID)
             ELSE IF i # 0 THEN Found(got.zones[i].ID)
             ELSE Failed(NotFoundErr(zoneIDOrName))

resolveZoneID_NormalizedID(got, zoneIDOrName) ==
    IF got.err.kind # "none" THEN Failed(got.err)
    ELSE LET i == ScanIDNormalized(got.zones, zoneIDOrName, 1)
             j == ScanName(got.zones, Normalize(zoneIDOrName), 1)
         IN  IF i # 0 THEN Found(got.zones[i].ID)
             ELSE IF j # 0 THEN Found(got.zones[j].ID)
             ELSE Failed(NotFoundErr(zoneIDOrName))

resolveZoneID_ExactName(got, zoneIDOrName) ==
    IF got.err.kind # "none" THEN Failed(got.err)
    ELSE LET i == ScanID(got.zones, zoneIDOrName, 1)
             j == ScanNameExact(got.zones, zoneIDOrName, 1)
         IN  IF i # 0 THEN Found(got.zones[i].ID)
             ELSE IF j # 0 THEN Found(got.zones[j].ID)
             ELSE Failed(NotFoundErr(zoneIDOrName))

\* resolveZoneID(client, zoneIDOrName), given what client.GetZones() returned
resolveZoneID(got, zoneIDOrName) ==
    IF got.err.kind # "none" THEN Failed(got.err)
    ELSE LET i == ScanID(got.zones, zoneIDOrName, 1)
             normalizedInput == ToLower(TrimSuffix(zoneIDOrName, "."))
             j == ScanName(got.zones, normalizedInput, 1)
         IN  IF i # 0 THEN Found(got.zones[i].ID)
             ELSE IF j # 0 THEN Found(got.zones[j].ID)
             ELSE Failed(NotFoundErr(zoneIDOrName))

GetZoneIDByName_Exact(got, name) ==
    IF got.err.kind # "none" THEN Failed(got.err)
    ELSE LET j == ScanNameExact(got.zones, name, 1)
         IN  IF j # 0 THEN Found(got.zones[j].ID) ELSE Failed(NotFoundErr(name))

\* Client.GetZoneIDByName(name), given what c.GetZones() returned
GetZoneIDByName(got, name) ==
    IF got.err.kind # "none" THEN Failed(got.err)
    ELSE LET normalizedName == ToLower(TrimSuffix(name, "."))
             j == ScanName(got.zones, normalizedName, 1)
         IN  IF j # 0 THEN Found(got.zones[j].ID) ELSE Failed(NotFoundErr(name))

(***************************************************************************)
(* The configuration file: YAML text with the single key api_token         *)
(***************************************************************************)
Absent == [exists |-> FALSE]
File(text, mode) == [exists |-> TRUE, text |-> text, mode |-> mode]

\* the key, as one symbol of the text
Key == "api_token"

\* content := fmt.Sprintf("api_token: %s\n", config.APIToken)
Sprintf(apiToken) == <<Key, ":", " ">> \o apiToken \o <<"\n">>

RECURSIVE TrimLeft(_)
TrimLeft(s) == IF s # <<>> /\ Head(s) = " " THEN TrimLeft(Tail(s)) ELSE s

RECURSIVE TrimRight(_)
TrimRight(s) ==
    IF s # <<>> /\ s[Len(s)] = " " THEN TrimRight(SubSeq(s, 1, Len(s) - 1)) ELSE s

\* a plain scalar runs to the end of the line or to a comment (" #")
RECURSIVE PlainUpToComment(_)
PlainUpToComment(s) ==
    IF s = <<>> THEN <<>>
    ELSE IF Len(s) >= 2 /\ s[1] = " " /\ s[2] = "#" THEN <<>>
    ELSE <<Head(s)>> \o PlainUpToComment(Tail(s))

\* the body of a single-quoted scalar, s being the text after the opening
\* quote: [ok, val, rest]; '' stands for one quote
RECURSIVE QuotedBody(_)
QuotedBody(s) ==
    IF s = <<>> THEN [ok |-> FALSE, val |-> <<>>, rest |-> <<>>]
    ELSE IF s[1] = "'" THEN
        IF Len(s) >= 2 /\ s[2] = "'" THEN
            LET r == QuotedBody(SubSeq(s, 3, Len(s)))
            IN  [ok |-> r.ok, val |-> <<"'">> \o r.val, rest |-> r.rest]
        ELSE [ok |-> TRUE, val |-> <<>>, rest |-> Tail(s)]
    ELSE LET r == QuotedBody(Tail(s))
         IN  [ok |-> r.ok, val |-> <<Head(s)>> \o r.val, rest |-> r.rest]

\* the YAML value of the text after "api_token:" on its line:
\* [ok, null, val]
ParseScalar(line) ==
    LET s == TrimLeft(line)
    IN  IF s = <<>> \/ s[1] = "#" THEN [ok |-> TRUE, null |-> TRUE, val |-> <<>>]
        ELSE IF s[1] = "'" THEN
            LET q == QuotedBody(Tail(s))
                after == TrimLeft(q.rest)
            IN  IF q.ok /\ (after = <<>> \/ (after[1] = "#" /\ after # q.rest))
                THEN [ok |-> TRUE, null |-> FALSE, val |-> q.val]
                ELSE [ok |-> FALSE, null |-> FALSE, val |-> <<>>]
        ELSE LET p == TrimRight(PlainUpToComment(s))
             IN  IF p = <<"~">> THEN [ok |-> TRUE, null |-> TRUE, val |-> <<>>]
                 ELSE [ok |-> TRUE, null |-> FALSE, val |-> p]

\* yaml.Unmarshal of the file into viper's config map: [ok, has, val]
ParseConfig(text) ==
    IF text = <<>> THEN [ok |-> TRUE, has |-> FALSE, val |-> <<>>]
    ELSE IF Len(text) >= 2 /\ text[1] = Key /\ text[2] = ":"
            /\ (Len(text) = 2 \/ text[3] \in {" ", "\n"})
    THEN \* the line break that ends the document is optional
         LET last == IF text[Len(text)] = "\n" THEN Len(text) - 1 ELSE Len(text)
             v == ParseScalar(SubSeq(text, 3, last))
         IN  [ok |-> v.ok, has |-> v.ok /\ ~v.null, val |-> v.val]
    ELSE [ok |-> FALSE, has |-> FALSE, val |-> <<>>]

RECURSIVE HasSpaceHash(_)
HasSpaceHash(s) ==
    /\ Len(s) >= 2
    /\ \/ (s[1] = " " /\ s[2] = "#")
       \/ HasSpaceHash(Tail(s))

\* whether the YAML emitter may write the string as a plain scalar
PlainAllowed(s) ==
    /\ s # <<>>
    /\ s # <<"~">>
    /\ s[1] \notin {"#", "'", " "}
    /\ s[Len(s)] # " "
    /\ ~HasSpaceHash(s)

RECURSIVE EscapeQuotes(_)
EscapeQuotes(s) ==
    IF s = <<>> THEN <<>>
    ELSE (IF Head(s) = "'" THEN <<"'", "'">> ELSE <<Head(s)>>) \o EscapeQuotes(Tail(s))

\* yaml.Marshal of {api_token: s}, what viper.WriteConfig writes
Marshal(s) ==
    <<Key, ":", " ">>
    \o (IF PlainAllowed(s) THEN s ELSE <<"'">> \o EscapeQuotes(s) \o <<"'">>)
    \o <<"\n">>

(***************************************************************************)
(* package config                                                          *)
(***************************************************************************)
NoPath == ""
\* filepath.Join(homeDir, ".config", "hetznerdns", "config.yaml")
ConfigPath == "~/.config/hetznerdns/config.yaml"

Unset == [set |-> FALSE, val |-> Empty]
Set(v) == [set |-> TRUE, val |-> v]

\* viper.ReadInConfig with SetConfigFile(configFile): "none", "notexist", "parse"
ReadInConfig(f) ==
    IF ~f.exists THEN [err |-> "notexist", has |-> FALSE, val |-> Empty]
    ELSE LET p == ParseConfig(f.text)
         IN  IF p.ok THEN [err |-> "none", has |-> p.has, val |-> p.val]
             ELSE [err |-> "parse", has |-> FALSE, val |-> Empty]

GetString_FileFirst(vset, e, rd) ==
    IF vset.set THEN vset.val
    ELSE IF rd.has THEN rd.val
    ELSE IF e.token # Empty THEN e.token
    ELSE Empty

\* viper.GetString("api_token"): override, then the environment variable
\* (an empty one counts as unset), then the file, then the default ""
GetString(vset, e, rd) ==
    IF vset.set THEN vset.val
    ELSE IF e.token # Empty THEN e.token
    ELSE IF rd.has THEN rd.val
    ELSE Empty

NotLoaded == [token |-> Empty, err |-> Pending, read |-> "notread"]

LoadConfig_FailsWhenAbsent(e, d, f, vset, cf) ==
    IF ~e.home THEN
        [cfg |-> [token |-> Empty, err |-> [kind |-> "home"], read |-> "notread"],
         dir |-> d, configFile |-> cf]
    ELSE IF (d = "absent" /\ ~e.writable) \/ ~f.exists THEN
        [cfg |-> [token |-> Empty, err |-> [kind |-> "mkdir"], read |-> "notread"],
         dir |-> d, configFile |-> ConfigPath]
    ELSE LET rd == ReadInConfig(f)
         IN  [cfg |-> [token |-> GetString(vset, e, rd), err |-> NoErr, read |-> rd.err],
              dir |-> "present", configFile |-> ConfigPath]

\* a LoadConfig that keeps the paths in local variables
LoadConfig_LocalPath(e, d, f, vset, cf) ==
    IF ~e.home THEN
        [cfg |-> [token |-> Empty, err |-> [kind |-> "home"], read |-> "notread"],
         dir |-> d, configFile |-> cf]
    ELSE IF d = "absent" /\ ~e.writable THEN
        [cfg |-> [token |-> Empty, err |-> [kind |-> "mkdir"], read |-> "notread"],
         dir |-> d, configFile |-> cf]
    ELSE LET rd == ReadInConfig(f)
         IN  [cfg |-> [token |-> GetString(vset, e, rd), err |-> NoErr, read |-> rd.err],
              dir |-> "present", configFile |-> cf]

\* config.LoadConfig(): what it returns and what it leaves behind (the
\* directory it creates, the package variable it sets)
LoadConfig(e, d, f, vset, cf) ==
    IF ~e.home THEN
        [cfg |-> [token |-> Empty, err |-> [kind |-> "home"], read |-> "notread"],
         dir |-> d, configFile |-> cf]
    ELSE IF d = "absent" /\ ~e.writable THEN
        [cfg |-> [token |-> Empty, err |-> [kind |-> "mkdir"], read |-> "notread"],
         dir |-> d, configFile |-> ConfigPath]
    ELSE LET rd == ReadInConfig(f)
         IN  [cfg |-> [token |-> GetString(vset, e, rd), err |-> NoErr, read |-> rd.err],
              dir |-> "present", configFile |-> ConfigPath]

\* what a file opened with O_TRUNC holds after Write(content) on a file
\* system with room for `room` more symbols: all of content, or the part
\* that fitted (the write then returns an error)
Written(content, room) ==
    IF room >= Len(content) THEN content ELSE SubSeq(content, 1, room)

\* config.SaveConfig(config): [path, err, file, dir, how], path being the
\* value of configFile it stats, creates and writes
SaveConfig(apiToken, e, d, f, cf, room) ==
    LET fileExists == cf # NoPath /\ f.exists
    IN  IF fileExists THEN
            \* viper.WriteConfig(): OpenFile(O_CREATE|O_TRUNC|O_WRONLY) keeps the
            \* mode of the file, empties it, then writes the marshalled map
            IF ~e.writable
            THEN [path |-> cf, err |-> [kind |-> "write"], file |-> f, dir |-> d, how |-> "none"]
            ELSE IF room < Len(Marshal(apiToken))
            THEN [path |-> cf, err |-> [kind |-> "write"],
                  file |-> File(Written(Marshal(apiToken), room), f.mode), dir |-> d,
                  how |-> "none"]
            ELSE [path |-> cf, err |-> NoErr, file |-> File(Marshal(apiToken), f.mode), dir |-> d,
                  how |-> "overwritten"]
        ELSE IF cf # NoPath /\ d = "absent" /\ ~e.writable
        THEN [path |-> cf, err |-> [kind |-> "mkdir"], file |-> f, dir |-> d, how |-> "none"]
        ELSE IF cf = NoPath \/ ~e.writable
        THEN [path |-> cf, err |-> [kind |-> "write"], file |-> f,
              dir |-> IF cf = NoPath THEN d ELSE "present", how |-> "none"]
        \* os.WriteFile(configFile, content, 0600)
        ELSE IF room < Len(Sprintf(apiToken))
        THEN [path |-> cf, err |-> [kind |-> "write"],
              file |-> File(Written(Sprintf(apiToken), room), "0600"), dir |-> "present",
              how |-> "none"]
        ELSE [path |-> cf, err |-> NoErr, file |-> File(Sprintf(apiToken), "0600"), dir |-> "present",
              how |-> "created"]

(***************************************************************************)
(* Records and the record operations of api.Client                         *)
(***************************************************************************)
Record(id, ty, name, value, ttl, zid) ==
    [ID |-> id, Type |-> ty, Name |-> name, Value |-> value, TTL |-> ttl,
     ZoneID |-> zid, Created |-> Empty, Modified |-> Empty]

\* the nil *Record an operation returns with an error
NoRecord == [nil |-> TRUE]

OmitEmpty(s) == IF s = Empty THEN JMissing ELSE JStr(s)

\* the id tag without omitempty
MarshalRecord_IdAlways(r) ==
    [t |-> "object",
     id |-> JStr(r.ID),
     type |-> JStr(r.Type),
     name |-> JStr(r.Name),
     value |-> JStr(r.Value),
     ttl |-> IF r.TTL = 0 THEN JMissing ELSE JNum(r.TTL),
     zone_id |-> JStr(r.ZoneID),
     created |-> OmitEmpty(r.Created),
     modified |-> OmitEmpty(r.Modified)]

\* every string tag with omitempty: only the fields that were set are sent
MarshalRecord_OnlySetFields(r) ==
    [t |-> "object",
     id |-> OmitEmpty(r.ID),
     type |-> OmitEmpty(r.Type),
     name |-> OmitEmpty(r.Name),
     value |-> OmitEmpty(r.Value),
     ttl |-> IF r.TTL = 0 THEN JMissing ELSE JNum(r.TTL),
     zone_id |-> OmitEmpty(r.ZoneID),
     created |-> OmitEmpty(r.Created),
     modified |-> OmitEmpty(r.Modified)]

\* json.Marshal(record) under the struct tags of Record
MarshalRecord(r) ==
    [t |-> "object",
     id |-> OmitEmpty(r.ID),
     type |-> JStr(r.Type),
     name |-> JStr(r.Name),
     value |-> JStr(r.Value),
     ttl |-> IF r.TTL = 0 THEN JMissing ELSE JNum(r.TTL),
     zone_id |-> JStr(r.ZoneID),
     created |-> OmitEmpty(r.Created),
     modified |-> OmitEmpty(r.Modified)]

\* an extraction that forgets the ttl
RecordFromMap_TTLDropped(m) ==
    Record(AsString(m.id), AsString(m.type), AsString(m.name), AsString(m.value),
           0, AsString(m.zone_id))

\* the per-field extraction shared by GetRecords, CreateRecord and UpdateRecord
RecordFromMap(m) ==
    Record(AsString(m.id), AsString(m.type), AsString(m.name), AsString(m.value),
           AsInt(m.ttl), AsString(m.zone_id))

RECURSIVE DecodeRecords(_)
DecodeRecords(elems) ==
    IF elems = <<>> THEN <<>>
    ELSE IF Head(elems).t # "object" THEN DecodeRecords(Tail(elems))
    ELSE <<RecordFromMap(Head(elems))>> \o DecodeRecords(Tail(elems))

\* a GetRecords that takes a missing or ill-typed records key for no records
GetRecords_MissingIsEmpty(resp) ==
    IF ~resp.ok THEN [records |-> <<>>, err |-> TransportErr]
    ELSE IF resp.status # 200 THEN [records |-> <<>>, err |-> ApiErr(resp)]
    ELSE IF resp.body.t # "object" THEN [records |-> <<>>, err |-> DecodeErr]
    ELSE IF resp.body.records.t # "array" THEN [records |-> <<>>, err |-> NoErr]
    ELSE [records |-> DecodeRecords(resp.body.records.elems), err |-> NoErr]

\* Client.GetRecords(zoneID) on the provider's response: [records, err]
GetRecords(resp) ==
    IF ~resp.ok THEN [records |-> <<>>, err |-> TransportErr]
    ELSE IF resp.status # 200 THEN [records |-> <<>>, err |-> ApiErr(resp)]
    ELSE IF resp.body.t # "object" THEN [records |-> <<>>, err |-> DecodeErr]
    ELSE IF resp.body.records.t # "array"
    THEN [records |-> <<>>, err |-> FormatErr("records")]
    ELSE [records |-> DecodeRecords(resp.body.records.elems), err |-> NoErr]

\* the tail of CreateRecord and UpdateRecord once the status was accepted
DecodeRecordEnvelope(resp) ==
    IF resp.body.t # "object" THEN [record |-> NoRecord, err |-> DecodeErr]
    ELSE IF resp.body.record.t # "object"
    THEN [record |-> NoRecord, err |-> FormatErr("record")]
    ELSE [record |-> RecordFromMap(resp.body.record), err |-> NoErr]

\* Client.CreateRecord(record) on the provider's response: [record, err]
CreateRecord(resp) ==
    IF ~resp.ok THEN [record |-> NoRecord, err |-> TransportErr]
    ELSE IF resp.status # 200 /\ resp.status # 201
    THEN [record |-> NoRecord, err |-> ApiErr(resp)]
    ELSE DecodeRecordEnvelope(resp)

\* an UpdateRecord that takes 201 for success, as CreateRecord does
UpdateRecord_Accepts201(resp) ==
    IF ~resp.ok THEN [record |-> NoRecord, err |-> TransportErr]
    ELSE IF resp.status # 200 /\ resp.status # 201
    THEN [record |-> NoRecord, err |-> ApiErr(resp)]
    ELSE DecodeRecordEnvelope(resp)

\* Client.UpdateRecord(record) on the provider's response: [record, err]
UpdateRecord(resp) ==
    IF ~resp.ok THEN [record |-> NoRecord, err |-> TransportErr]
    ELSE IF resp.status # 200 THEN [record |-> NoRecord, err |-> ApiErr(resp)]
    ELSE DecodeRecordEnvelope(resp)

\* Client.DeleteRecord(recordID) on the provider's response: [err]
DeleteRecord(resp) ==
    IF ~resp.ok THEN [err |-> TransportErr]
    ELSE IF resp.status # 200 /\ resp.status # 204 THEN [err |-> ApiErr(resp)]
    ELSE [err |-> NoErr]

\* an HTTP request: method, URL (path and the part fmt.Sprintf fills in),
\* the headers set on it, the body
Request(method, path, param, headers, body) ==
    [method |-> method, path |-> path, param |-> param, headers |-> headers,
     body |-> body]

NoBody == JMissing

\* the header set, its value left out
AuthHeader_Blank(c) == <<"Auth-API-Token", Empty>>

\* req.Header.Set("Auth-API-Token", c.apiToken)
AuthHeader(c) == <<"Auth-API-Token", c.apiToken>>
\* req.Header.Set("Content-Type", "application/json")
ContentTypeHeader == <<"Content-Type", "application/json">>

\* the request each operation builds before c.httpClient.Do(req)
GetZonesRequest(c) ==
    Request("GET", "/zones", Empty, {AuthHeader(c), ContentTypeHeader}, NoBody)

GetRecordsRequest(c, zoneID) ==
    Request("GET", "/records", zoneID, {AuthHeader(c), ContentTypeHeader}, NoBody)

CreateRecordRequest(c, record) ==
    Request("POST", "/records", Empty, {AuthHeader(c), ContentTypeHeader},
            MarshalRecord(record))

UpdateRecordRequest(c, record) ==
    Request("PUT", "/records/", record.ID, {AuthHeader(c), ContentTypeHeader},
            MarshalRecord(record))

DeleteRecordRequest(c, recordID) ==
    Request("DELETE", "/records/", recordID, {AuthHeader(c)}, NoBody)

\* a client that sends the request again when no answer came or the provider
\* failed
Do_Retrying(sent, req, resp) ==
    IF ~resp.ok \/ resp.status >= 500 THEN Append(Append(sent, req), req)
    ELSE Append(sent, req)

\* resp, err := c.httpClient.Do(req): the request goes out once, whatever
\* the provider answers; sent is the sequence of requests sent so far
Do(sent, req, resp) == Append(sent, req)

(***************************************************************************)
(* Bounds and input domains                                                *)
(***************************************************************************)
\* the longest zone list a response carries
MaxZones == 2

SeqsUpTo(S, n) == UNION {[1..k -> S] : k \in 0..n}

Response(ok, status, body) == [ok |-> ok, status |-> status, body |-> body]
NoEnvelope == JBody(JMissing, JMissing, JMissing)

\* responses that make a list call fail: no answer, a refusal, a body that
\* is no JSON, a document without the envelope key, the key with another type
FailingResponses ==
    {Response(FALSE, 0, NotJSON), Response(TRUE, 500, NotJSON),
     Response(TRUE, 200, NotJSON), Response(TRUE, 200, NoEnvelope),
     Response(TRUE, 200, JBody(JStr(<<"a">>), JMissing, JMissing))}

ZonesResponses(elems) ==
    FailingResponses
    \cup {Response(TRUE, 200, JBody(JArr(es), JMissing, JMissing)) :
            es \in SeqsUpTo(elems, MaxZones)}

\* zone elements for the study of resolution: ids and names that differ by
\* case, by a trailing dot, or are absent; and one element that is no object
RichIds == {JMissing, JStr(<<"a">>), JStr(<<"A">>), JStr(<<"b">>)}
RichNames == {JMissing, JStr(<<"a">>), JStr(<<"A", ".">>), JStr(<<".">>)}
RichElems ==
    {JZone(i, n, JMissing, JMissing) : i \in RichIds, n \in RichNames} \cup {JNum(7)}
RichInputs ==
    {Empty, <<".">>, <<"a">>, <<"A">>, <<"a", ".">>, <<"A", ".">>, <<"b">>}

\* what the provider answers to the commands
CliElems ==
    {JZone(JStr(<<"a">>), JStr(<<"b">>), JNum(60), JNum(1)),
     JZone(JMissing, JStr(<<"a">>), JMissing, JMissing)}
CliZoneArgs == {<<"a">>, <<"B", ".">>}

EchoRecord == JRecord(JStr(<<"r">>), JStr(<<"T">>), JStr(<<"w">>), JStr(<<"v">>),
                      JMissing, JStr(<<"a">>), JStr(<<"c">>), JStr(<<"m">>))
RecordResponses ==
    {Response(FALSE, 0, NotJSON), Response(TRUE, 200, NotJSON),
     Response(TRUE, 200, NoEnvelope)}
    \cup {Response(TRUE, st, JBody(JMissing, JMissing, EchoRecord)) :
            st \in {200, 201, 204, 404}}
RecordsResponses ==
    FailingResponses
    \cup {Response(TRUE, 200, JBody(JMissing, JArr(es), JMissing)) :
            es \in {<<>>, <<EchoRecord>>}}

Tokens == {Empty, <<"x">>, <<"#", "x">>, <<"'", "x">>, <<"~">>}
EnvTokens == {Empty, <<"e">>}
Envs == [home : BOOLEAN, writable : BOOLEAN, token : EnvTokens]

Commands == {"config set", "config show", "zone list", "record list",
             "record create", "record update", "record delete", "llmhelp"}
ApiCommands == {"zone list", "record list", "record create", "record update",
                "record delete"}

\* the flags cobra demands (MarkFlagRequired in the init functions)
RequiredFlags(c) ==
    CASE c = "record list" -> {"zone"}
      [] c = "record create" -> {"zone", "name", "type", "value"}
      [] c = "record update" -> {"id", "zone"}
      [] c = "record delete" -> {"id"}
      [] OTHER -> {}

\* the flags each command defines (Flags().StringP / IntP in the init
\* functions)
Flags(c) ==
    CASE c = "config set" -> {"api-token"}
      [] c = "record list" -> {"zone"}
      [] c = "record create" -> {"zone", "name", "type", "value", "ttl"}
      [] c = "record update" -> {"id", "zone", "name", "type", "value", "ttl"}
      [] c = "record delete" -> {"id"}
      [] OTHER -> {}

\* cobra's required annotations once the init functions have run
MarkedRequired == [c \in Commands |-> RequiredFlags(c)]

\* cmd.MarkFlagRequired(name): an error when cmd has no such flag, else the
\* flag is annotated as required
MarkFlagRequired(req, c, name) ==
    IF name \notin Flags(c) THEN [err |-> TRUE, required |-> req]
    ELSE [err |-> FALSE, required |-> [req EXCEPT ![c] = @ \cup {name}]]

\* one entry of the report: required := cmd.MarkFlagRequired(flag.Name) == nil
\* for a flag that cmd.Flags().Lookup finds
FlagOption(req, c, name) ==
    [command |-> c, name |-> name,
     required |-> IF name \in Flags(c) THEN ~MarkFlagRequired(req, c, name).err
                  ELSE FALSE]

\* every flag of c passed through MarkFlagRequired, one after the other
RECURSIVE VisitAll(_, _, _)
VisitAll(req, c, names) ==
    IF names = {} THEN req
    ELSE LET name == CHOOSE x \in names : TRUE
         IN  VisitAll(MarkFlagRequired(req, c, name).required, c, names \ {name})

\* getCommandOptions(rootCmd): the flag entries of the report and the
\* annotations the walk over the command tree leaves behind
getCommandOptions(req) ==
    [flags |-> {FlagOption(req, c, name) : <<c, name>> \in
                    UNION {{<<c, f>> : f \in Flags(c)} : c \in Commands}},
     required |-> [c \in Commands |-> VisitAll(req, c, Flags(c))[c]]]

Args(given, zone, id, name, ty, value, ttl, token) ==
    [given |-> given, zone |-> zone, id |-> id, name |-> name, type |-> ty,
     value |-> value, ttl |-> ttl, token |-> token]
NoArgs == Args({}, Empty, Empty, Empty, Empty, Empty, 0, Empty)

\* record update's optional flags: none given, --ttl given as 0 or as 60,
\* --value given empty, all of them given.  A flag that is absent holds its
\* default ("" or 0).
UpdateOption(given, name, ty, value, ttl) ==
    [given |-> given, name |-> name, type |-> ty, value |-> value, ttl |-> ttl]
UpdateOptions ==
    {UpdateOption({}, Empty, Empty, Empty, 0),
     UpdateOption({"ttl"}, Empty, Empty, Empty, 0),
     UpdateOption({"ttl"}, Empty, Empty, Empty, 60),
     UpdateOption({"value"}, Empty, Empty, Empty, 0),
     UpdateOption({"name", "type", "value", "ttl"}, <<"w">>, <<"T">>, <<"v">>, 60)}

\* the command lines of the model: every required flag given, or none
ArgsOf(c) ==
    CASE c = "config set" -> {Args({}, Empty, Empty, Empty, Empty, Empty, 0, t) : t \in Tokens}
      [] c = "record list" ->
            {Args({"zone"}, z, Empty, Empty, Empty, Empty, 0, Empty) : z \in CliZoneArgs}
            \cup {NoArgs}
      [] c = "record create" ->
            {Args({"zone", "name", "type", "value"}, z, Empty, <<"w">>, <<"T">>, <<"v">>,
                  0, Empty) : z \in CliZoneArgs}
            \cup {NoArgs}
      [] c = "record update" ->
            {Args({"id", "zone", "value"}, z, <<"r">>, Empty, Empty, <<"v">>, 0, Empty) :
                z \in CliZoneArgs}
            \cup {Args({"id", "zone"} \cup o.given, <<"a">>, <<"r">>, o.name, o.type,
                       o.value, o.ttl, Empty) : o \in UpdateOptions}
            \cup {NoArgs}
      [] c = "record delete" ->
            {Args({"id"}, Empty, <<"r">>, Empty, Empty, Empty, 0, Empty), NoArgs}
      [] OTHER -> {NoArgs}

(***************************************************************************)
(* The process                                                             *)
(***************************************************************************)
NotResolved == [id |-> Empty, err |-> Pending]
NoResult == [op |-> "none", err |-> Pending]
NoSave == [how |-> "none", tok |-> Empty]
NoCall == [op |-> "none", arg |-> Empty]
Call(op, arg) == [op |-> op, arg |-> arg]
\* no request was answered yet
NoAnswer == [ok |-> FALSE, status |-> 0, body |-> JMissing]

\* main(): os.Exit(1) when rootCmd.Execute() returned an error, 0 otherwise
main(executeFailed) == IF executeFailed THEN 1 ELSE 0

\* a threshold off by one: tokens of 8 characters shown in two halves
Masked_FromEight(apiToken) ==
    IF apiToken = Empty THEN <<"Not set">>
    ELSE IF Len(apiToken) >= 8
    THEN SubSeq(apiToken, 1, 4) \o <<".", ".", ".">>
         \o SubSeq(apiToken, Len(apiToken) - 3, Len(apiToken))
    ELSE <<"********">>

\* config show: the token as it is printed
Masked(apiToken) ==
    IF apiToken = Empty THEN <<"Not set">>
    ELSE IF Len(apiToken) > 8
    THEN SubSeq(apiToken, 1, 4) \o <<".", ".", ".">>
         \o SubSeq(apiToken, Len(apiToken) - 3, Len(apiToken))
    ELSE <<"********">>

\* the files a user may have before the tool first runs: none, an empty
\* directory, a file the user wrote by hand (well-formed or not)
InitialFiles ==
    {[dir |-> "absent", file |-> Absent],
     [dir |-> "present", file |-> Absent],
     [dir |-> "present", file |-> File(<<Key, ":", " ", "x", "\n">>, "0644")],
     [dir |-> "present", file |-> File(<<"{">>, "0644")]}

Init ==
    /\ pc = "idle"
    /\ cmd = "none"
    /\ args = NoArgs
    /\ env = [home |-> TRUE, writable |-> TRUE, token |-> Empty]
    /\ \E fs \in InitialFiles : dir = fs.dir /\ file = fs.file
    /\ viperSet = Unset
    /\ configFile = NoPath
    /\ cfg = NotLoaded
    /\ client = NoClient
    /\ zones = <<>>
    /\ resolved = NotResolved
    /\ byName = NotResolved
    /\ reqs = <<>>
    /\ result = NoResult
    /\ reported = FALSE
    /\ exitCode = -1
    /\ out = Empty
    /\ saved = NoSave
    /\ call = NoCall
    /\ answer = NoAnswer
    /\ required = MarkedRequired

\* A new process: cobra parses the command line; a missing required flag
\* makes Execute return an error, which main prints before exiting with 1.
Invoke(c, a, e) ==
    /\ pc \in {"idle", "done"}
    /\ cmd' = c
    /\ args' = a
    /\ env' = e
    /\ viperSet' = Unset
    /\ configFile' = NoPath
    /\ cfg' = NotLoaded
    /\ client' = NoClient
    /\ zones' = <<>>
    /\ resolved' = NotResolved
    /\ reqs' = <<>>
    /\ result' = NoResult
    /\ out' = Empty
    /\ call' = NoCall
    /\ answer' = NoAnswer
    /\ IF RequiredFlags(c) \subseteq a.given
       THEN /\ pc' = IF c = "llmhelp" THEN "llmhelp" ELSE "load"
            /\ reported' = FALSE
            /\ exitCode' = -1
       ELSE /\ pc' = "done"
            /\ reported' = TRUE
            /\ exitCode' = main(TRUE)
    /\ required' = MarkedRequired
    /\ UNCHANGED <<dir, file, byName, saved>>

\* cfg, err := config.LoadConfig()
StepLoadConfig ==
    /\ pc = "load"
    /\ LET r == LoadConfig(env, dir, file, viperSet, configFile)
       IN  /\ cfg' = r.cfg
           /\ dir' = r.dir
           /\ configFile' = r.configFile
    /\ pc' = "loaded"
    /\ UNCHANGED <<cmd, args, env, file, viperSet, client, zones, resolved, byName,
                   reqs, result, reported, exitCode, out, saved,
                   call, answer, required>>

\* where a handler goes once it holds a usable configuration
AfterLoad_NoResolution(c) ==
    CASE c = "config set" -> "save"
      [] c = "config show" -> "show"
      [] c = "zone list" -> "zones"
      [] c = "record list" -> "records"
      [] OTHER -> "mutate"

AfterLoad(c) ==
    CASE c = "config set" -> "save"
      [] c = "config show" -> "show"
      [] c = "zone list" -> "zones"
      [] c = "record delete" -> "mutate"
      [] OTHER -> "resolve"

\* a handler that forgets the check for an empty token
StepCheckConfig_NoTokenCheck ==
    /\ pc = "loaded"
    /\ IF cfg.err.kind # "none"
       THEN /\ reported' = TRUE
            /\ pc' = "return"
            /\ client' = client
       ELSE /\ reported' = reported
            /\ pc' = AfterLoad(cmd)
            /\ client' = IF cmd \in ApiCommands THEN NewClient(cfg.token) ELSE client
    /\ UNCHANGED <<cmd, args, env, dir, file, viperSet, configFile, cfg, zones,
                   resolved, byName, reqs, result, exitCode, out, saved,
                   call, answer, required>>

\* if err != nil { print; return }; if cfg.APIToken == "" { print; return };
\* client := api.NewClient(cfg.APIToken)
StepCheckConfig ==
    /\ pc = "loaded"
    /\ IF cfg.err.kind # "none" \/ (cmd \in ApiCommands /\ cfg.token = Empty)
       THEN /\ reported' = TRUE
            /\ pc' = "return"
            /\ client' = client
       ELSE /\ reported' = reported
            /\ pc' = AfterLoad(cmd)
            /\ client' = IF cmd \in ApiCommands THEN NewClient(cfg.token) ELSE client
    /\ UNCHANGED <<cmd, args, env, dir, file, viperSet, configFile, cfg, zones,
                   resolved, byName, reqs, result, exitCode, out, saved,
                   call, answer, required>>

\* where a record command goes after resolveZoneID returned
AfterResolve(c, r) ==
    IF r.err.kind # "none" THEN "return"
    ELSE IF c = "record list" THEN "records" ELSE "mutate"

\* zoneID, err := resolveZoneID(client, zoneIDOrName); if err != nil { print; return }
StepResolveZoneID(resp) ==
    /\ pc = "resolve"
    /\ LET got == GetZones(resp)
           r == resolveZoneID(got, args.zone)
       IN  /\ reqs' = Do(reqs, GetZonesRequest(client), resp)
           /\ zones' = got.zones
           /\ resolved' = r
           /\ reported' = (r.err.kind # "none")
           /\ pc' = AfterResolve(cmd, r)
    /\ call' = Call("GetZones", Empty)
    /\ answer' = resp
    /\ UNCHANGED <<cmd, args, env, dir, file, viperSet, configFile, cfg, client,
                   byName, result, exitCode, out, saved, required>>

\* records, err := client.GetRecords(zoneID), then the table
StepGetRecords(resp) ==
    /\ pc = "records"
    /\ LET got == GetRecords(resp)
       IN  /\ reqs' = Do(reqs, GetRecordsRequest(client, resolved.id), resp)
           /\ result' = [op |-> "GetRecords", err |-> got.err, records |-> got.records]
           /\ reported' = (got.err.kind # "none")
    /\ call' = Call("GetRecords", resolved.id)
    /\ answer' = resp
    /\ pc' = "return"
    /\ UNCHANGED <<cmd, args, env, dir, file, viperSet, configFile, cfg, client,
                   zones, resolved, byName, exitCode, out, saved, required>>

\* zones, err := client.GetZones(), then the table
StepZoneList(resp) ==
    /\ pc = "zones"
    /\ LET got == GetZones(resp)
       IN  /\ reqs' = Do(reqs, GetZonesRequest(client), resp)
           /\ zones' = got.zones
           /\ result' = [op |-> "GetZones", err |-> got.err, zones |-> got.zones]
           /\ reported' = (got.err.kind # "none")
    /\ call' = Call("GetZones", Empty)
    /\ answer' = resp
    /\ pc' = "return"
    /\ UNCHANGED <<cmd, args, env, dir, file, viperSet, configFile, cfg, client,
                   resolved, byName, exitCode, out, saved, required>>

\* record := api.Record{ZoneID: zoneID, Name: name, ...}; client.CreateRecord(record)
StepCreateRecord(resp) ==
    /\ pc = "mutate"
    /\ cmd = "record create"
    /\ LET record == Record(Empty, args.type, args.name, args.value, args.ttl, resolved.id)
           got == CreateRecord(resp)
       IN  /\ reqs' = Do(reqs, CreateRecordRequest(client, record), resp)
           /\ result' = [op |-> "CreateRecord", err |-> got.err, record |-> got.record]
           /\ reported' = (got.err.kind # "none")
           /\ call' = Call("CreateRecord", record)
    /\ answer' = resp
    /\ pc' = "return"
    /\ UNCHANGED <<cmd, args, env, dir, file, viperSet, configFile, cfg, client,
                   zones, resolved, byName, exitCode, out, saved, required>>

\* record := api.Record{ID: recordID, ZoneID: zoneID}; the fields given;
\* client.UpdateRecord(record)
StepUpdateRecord(resp) ==
    /\ pc = "mutate"
    /\ cmd = "record update"
    /\ LET record == Record(args.id, args.type, args.name, args.value,
                            IF "ttl" \in args.given THEN args.ttl ELSE 0, resolved.id)
           got == UpdateRecord(resp)
       IN  /\ reqs' = Do(reqs, UpdateRecordRequest(client, record), resp)
           /\ result' = [op |-> "UpdateRecord", err |-> got.err, record |-> got.record]
           /\ reported' = (got.err.kind # "none")
           /\ call' = Call("UpdateRecord", record)
    /\ answer' = resp
    /\ pc' = "return"
    /\ UNCHANGED <<cmd, args, env, dir, file, viperSet, configFile, cfg, client,
                   zones, resolved, byName, exitCode, out, saved, required>>

\* err = client.DeleteRecord(recordID)
StepDeleteRecord(resp) ==
    /\ pc = "mutate"
    /\ cmd = "record delete"
    /\ LET got == DeleteRecord(resp)
       IN  /\ reqs' = Do(reqs, DeleteRecordRequest(client, args.id), resp)
           /\ result' = [op |-> "DeleteRecord", err |-> got.err]
           /\ reported' = (got.err.kind # "none")
    /\ call' = Call("DeleteRecord", args.id)
    /\ answer' = resp
    /\ pc' = "return"
    /\ UNCHANGED <<cmd, args, env, dir, file, viperSet, configFile, cfg, client,
                   zones, resolved, byName, exitCode, out, saved, required>>

\* cfg.APIToken = apiToken; config.SaveConfig(cfg); the file system has
\* room for `room` more symbols
StepSaveConfig(room) ==
    /\ pc = "save"
    /\ LET r == SaveConfig(args.token, env, dir, file, configFile, room)
       IN  /\ viperSet' = Set(args.token)
           /\ file' = r.file
           /\ dir' = r.dir
           /\ reported' = (r.err.kind # "none")
           /\ result' = [op |-> "SaveConfig", err |-> r.err, before |-> file]
           /\ saved' = IF r.err.kind = "none" THEN [how |-> r.how, tok |-> args.token]
                       ELSE saved
    /\ pc' = "return"
    /\ UNCHANGED <<cmd, args, env, configFile, cfg, client, zones, resolved, byName,
                   reqs, exitCode, out,
                   call, answer, required>>

\* config show prints the token, masked
StepShow ==
    /\ pc = "show"
    /\ out' = Masked(cfg.token)
    /\ pc' = "return"
    /\ UNCHANGED <<cmd, args, env, dir, file, viperSet, configFile, cfg, client,
                   zones, resolved, byName, reqs, result, reported, exitCode, saved,
                   call, answer, required>>

\* llmhelp: options := getCommandOptions(rootCmd), printed as JSON
StepLlmHelp ==
    /\ pc = "llmhelp"
    /\ LET r == getCommandOptions(required)
       IN  /\ out' = r.flags
           /\ required' = r.required
    /\ pc' = "return"
    /\ UNCHANGED <<cmd, args, env, dir, file, viperSet, configFile, cfg, client,
                   zones, resolved, byName, reqs, result, reported, exitCode, saved,
                   call, answer>>

\* the handler returned: Execute returns nil and main falls off its end
StepReturn ==
    /\ pc = "return"
    /\ exitCode' = main(FALSE)
    /\ pc' = "done"
    /\ UNCHANGED <<cmd, args, env, dir, file, viperSet, configFile, cfg, client,
                   zones, resolved, byName, reqs, result, reported, out, saved,
                   call, answer, required>>

Next ==
    \/ \E c \in Commands : \E a \in ArgsOf(c) : \E e \in Envs : Invoke(c, a, e)
    \/ StepLoadConfig
    \/ StepCheckConfig
    \/ \E resp \in ZonesResponses(CliElems) : StepResolveZoneID(resp)
    \/ \E resp \in RecordsResponses : StepGetRecords(resp)
    \/ \E resp \in ZonesResponses(CliElems) : StepZoneList(resp)
    \/ \E resp \in RecordResponses : StepCreateRecord(resp)
    \/ \E resp \in RecordResponses : StepUpdateRecord(resp)
    \/ \E resp \in RecordResponses : StepDeleteRecord(resp)
    \* here the file system has room for the whole file (SpecSave lifts this)
    \/ StepSaveConfig(Len(Marshal(args.token)))
    \/ StepShow
    \/ StepLlmHelp
    \/ StepReturn

Spec == Init /\ [][Next]_vars

(***************************************************************************)
(* The configuration commands on a file system that may run out of room    *)
(* while SaveConfig writes.                                                *)
(***************************************************************************)
ConfigCommands == {"config set", "config show"}

NextSave ==
    \/ \E c \in ConfigCommands : \E a \in ArgsOf(c) : \E e \in Envs : Invoke(c, a, e)
    \/ StepLoadConfig
    \/ StepCheckConfig
    \/ \E room \in 0..Len(Marshal(args.token)) : StepSaveConfig(room)
    \/ StepShow
    \/ StepReturn

SpecSave == Init /\ [][NextSave]_vars

(***************************************************************************)
(* config show on tokens of every length up to MaxTokenLen, taken from the *)
(* environment.  Tokens are ASCII: one character is one byte.              *)
(***************************************************************************)
\* the longest token of the two-letter alphabet
MaxTokenLen == 9

\* a token that reads like a masked one, and one that differs from it in a
\* character of the middle
DottedToken == <<"a", "b", "a", "b", ".", ".", ".", "a", "b", "a", "b">>
DottedSibling == <<"a", "b", "a", "b", ".", "a", ".", "a", "b", "a", "b">>

ShowTokens == SeqsUpTo({"a", "b"}, MaxTokenLen) \cup {DottedToken, DottedSibling}

InitShow ==
    /\ pc = "load"
    /\ cmd = "config show"
    /\ args = NoArgs
    /\ \E t \in ShowTokens : env = [home |-> TRUE, writable |-> TRUE, token |-> t]
    /\ dir = "present"
    /\ file = Absent
    /\ viperSet = Unset
    /\ configFile = NoPath
    /\ cfg = NotLoaded
    /\ client = NoClient
    /\ zones = <<>>
    /\ resolved = NotResolved
    /\ byName = NotResolved
    /\ reqs = <<>>
    /\ result = NoResult
    /\ reported = FALSE
    /\ exitCode = -1
    /\ out = Empty
    /\ saved = NoSave
    /\ call = NoCall
    /\ answer = NoAnswer
    /\ required = MarkedRequired

NextShow ==
    \/ StepLoadConfig
    \/ StepCheckConfig
    \/ StepShow
    \/ StepReturn

SpecShow == InitShow /\ [][NextShow]_vars

(***************************************************************************)
(* A caller of the package config: processes that call LoadConfig and      *)
(* SaveConfig in any order, on a file system with room for the file.       *)
(***************************************************************************)
InitConfig ==
    /\ pc = "caller"
    /\ cmd = "none"
    /\ args = NoArgs
    /\ env = [home |-> TRUE, writable |-> TRUE, token |-> Empty]
    /\ \E fs \in InitialFiles : dir = fs.dir /\ file = fs.file
    /\ viperSet = Unset
    /\ configFile = NoPath
    /\ cfg = NotLoaded
    /\ client = NoClient
    /\ zones = <<>>
    /\ resolved = NotResolved
    /\ byName = NotResolved
    /\ reqs = <<>>
    /\ result = NoResult
    /\ reported = FALSE
    /\ exitCode = -1
    /\ out = Empty
    /\ saved = NoSave
    /\ call = NoCall
    /\ answer = NoAnswer
    /\ required = MarkedRequired

\* a new process: the package variables and viper's registry start empty,
\* the files stay
StartProcess(e) ==
    /\ pc = "caller"
    /\ env' = e
    /\ viperSet' = Unset
    /\ configFile' = NoPath
    /\ cfg' = NotLoaded
    /\ result' = NoResult
    /\ call' = NoCall
    /\ UNCHANGED <<pc, cmd, args, dir, file, client, zones, resolved, byName, reqs,
                   reported, exitCode, out, saved, answer, required>>

\* cfg, err := config.LoadConfig()
CallLoadConfig ==
    /\ pc = "caller"
    /\ LET r == LoadConfig(env, dir, file, viperSet, configFile)
       IN  /\ cfg' = r.cfg
           /\ dir' = r.dir
           /\ configFile' = r.configFile
    /\ call' = Call("LoadConfig", Empty)
    /\ UNCHANGED <<pc, cmd, args, env, file, viperSet, client, zones, resolved,
                   byName, reqs, result, reported, exitCode, out, saved, answer, required>>

\* err := config.SaveConfig(&Config{APIToken: apiToken}); afterLoad tells
\* whether a LoadConfig of this process had returned before the call
CallSaveConfig(apiToken) ==
    /\ pc = "caller"
    /\ LET r == SaveConfig(apiToken, env, dir, file, configFile, Len(Marshal(apiToken)))
       IN  /\ viperSet' = Set(apiToken)
           /\ file' = r.file
           /\ dir' = r.dir
           /\ result' = [op |-> "SaveConfig", err |-> r.err, before |-> file,
                         path |-> r.path, afterLoad |-> (cfg.err.kind # "pending")]
           /\ saved' = IF r.err.kind = "none" THEN [how |-> r.how, tok |-> apiToken]
                       ELSE saved
    /\ call' = Call("SaveConfig", apiToken)
    /\ UNCHANGED <<pc, cmd, args, env, configFile, cfg, client, zones, resolved,
                   byName, reqs, reported, exitCode, out, answer, required>>

NextConfig ==
    \/ \E e \in Envs : StartProcess(e)
    \/ CallLoadConfig
    \/ \E t \in Tokens : CallSaveConfig(t)

SpecConfig == InitConfig /\ [][NextConfig]_vars

(***************************************************************************)
(* Zone resolution on its own: a record command that holds a client, any   *)
(* input of RichInputs, and a provider that answers with any zone list     *)
(* over RichElems.                                                         *)
(***************************************************************************)
InitResolve ==
    /\ pc = "resolve"
    /\ cmd = "record list"
    /\ \E z \in RichInputs : args = Args({"zone"}, z, Empty, Empty, Empty, Empty, 0, Empty)
    /\ env = [home |-> TRUE, writable |-> TRUE, token |-> <<"e">>]
    /\ dir = "present"
    /\ file = Absent
    /\ viperSet = Unset
    /\ configFile = ConfigPath
    /\ cfg = [token |-> <<"e">>, err |-> NoErr, read |-> "notexist"]
    /\ client = NewClient(<<"e">>)
    /\ zones = <<>>
    /\ resolved = NotResolved
    /\ byName = NotResolved
    /\ reqs = <<>>
    /\ result = NoResult
    /\ reported = FALSE
    /\ exitCode = -1
    /\ out = Empty
    /\ saved = NoSave
    /\ call = NoCall
    /\ answer = NoAnswer
    /\ required = MarkedRequired

\* a caller of the package: client.GetZoneIDByName(name)
CallGetZoneIDByName(resp) ==
    /\ pc = "resolve"
    /\ LET got == GetZones(resp)
       IN  /\ reqs' = Do(reqs, GetZonesRequest(client), resp)
           /\ zones' = got.zones
           /\ byName' = GetZoneIDByName(got, args.zone)
    /\ call' = Call("GetZoneIDByName", args.zone)
    /\ answer' = resp
    /\ pc' = "called"
    /\ UNCHANGED <<cmd, args, env, dir, file, viperSet, configFile, cfg, client,
                   resolved, result, reported, exitCode, out, saved, required>>

NextResolve ==
    \/ \E resp \in ZonesResponses(RichElems) : StepResolveZoneID(resp)
    \/ \E resp \in ZonesResponses(RichElems) : CallGetZoneIDByName(resp)

SpecResolve == InitResolve /\ [][NextResolve]_vars

(***************************************************************************)
(* The client on its own: a caller of package api that holds a client and  *)
(* calls one operation with any argument, the provider answering with any  *)
(* status and any document of the sets below.                              *)
(***************************************************************************)
\* the longest record list a response carries
MaxRecords == 2

Statuses == {200, 201, 204, 404, 500}

\* values under a key that are not of the type the code asserts
NotAString == {JMissing, JNum(7)}
NotANumber == {JMissing, JStr(<<"9">>)}
NotAnObject == {JNum(7), JNull}

BaseZone == JZone(JStr(<<"a">>), JStr(<<"b">>), JNum(60), JNum(1))

\* zone elements: the well-formed one, the same with one key missing or of
\* another type, an object without keys, and elements that are no objects
\* (record elements likewise, each key missing or of another type)
ZoneElems ==
    {BaseZone, JZone(JMissing, JMissing, JMissing, JMissing)}
    \cup {[BaseZone EXCEPT !.id = v] : v \in NotAString}
    \cup {[BaseZone EXCEPT !.name = v] : v \in NotAString}
    \cup {[BaseZone EXCEPT !.ttl = v] : v \in NotANumber}
    \cup {[BaseZone EXCEPT !.records_count = v] : v \in NotANumber}
    \cup NotAnObject

BaseRecord == JRecord(JStr(<<"r">>), JStr(<<"T">>), JStr(<<"w">>), JStr(<<"v">>),
                      JNum(60), JStr(<<"a">>), JStr(<<"c">>), JStr(<<"m">>))

RecordObjects ==
    {BaseRecord,
     JRecord(JMissing, JMissing, JMissing, JMissing, JMissing, JMissing, JMissing,
             JMissing)}
    \cup {[BaseRecord EXCEPT !.id = v] : v \in NotAString}
    \cup {[BaseRecord EXCEPT !.ttl = v] : v \in NotANumber}
    \cup {[BaseRecord EXCEPT !.type = JMissing],
          [BaseRecord EXCEPT !.name = JNum(7)],
          [BaseRecord EXCEPT !.value = JMissing],
          [BaseRecord EXCEPT !.zone_id = JMissing],
          [BaseRecord EXCEPT !.created = JMissing],
          [BaseRecord EXCEPT !.modified = JNum(7)]}

RecordElems == RecordObjects \cup NotAnObject

\* what any operation may get: no answer, or any status with a body that
\* is no JSON document or is a well-formed envelope
AnyStatusResponses(body) ==
    {Response(FALSE, 0, NotJSON)}
    \cup {Response(TRUE, st, b) : st \in Statuses, b \in {NotJSON, body}}

ClientZonesResponses ==
    AnyStatusResponses(JBody(JArr(<<BaseZone>>), JMissing, JMissing))
    \cup {Response(TRUE, 200, JBody(v, JMissing, JMissing)) :
            v \in {JMissing, JNull, JStr(<<"s">>), BaseZone}}
    \cup {Response(TRUE, 200, JBody(JArr(es), JMissing, JMissing)) :
            es \in SeqsUpTo(ZoneElems, MaxZones)}

ClientRecordsResponses ==
    AnyStatusResponses(JBody(JMissing, JArr(<<BaseRecord>>), JMissing))
    \cup {Response(TRUE, 200, JBody(JMissing, v, JMissing)) :
            v \in {JMissing, JNull, JStr(<<"s">>), BaseRecord}}
    \cup {Response(TRUE, 200, JBody(JMissing, JArr(es), JMissing)) :
            es \in SeqsUpTo(RecordElems, MaxRecords)}

\* the provider stores the record it was sent and answers with it, the id
\* it assigned filled in
Echo(body, id) == [body EXCEPT !.id = JStr(id)]
AssignedIds == {<<"n">>, <<"r">>}

ClientRecordResponses(sent) ==
    AnyStatusResponses(JBody(JMissing, JMissing, BaseRecord))
    \cup {Response(TRUE, st, JBody(JMissing, JMissing, v)) :
            st \in {200, 201},
            v \in {JMissing, JNull, JStr(<<"s">>), JArr(<<>>)} \cup RecordObjects}
    \cup {Response(TRUE, st, JBody(JMissing, JMissing, Echo(sent, id))) :
            st \in {200, 201}, id \in AssignedIds}

ClientDeleteResponses == AnyStatusResponses(NoEnvelope)

\* the records a caller passes: with and without id, type, value and ttl
InputRecords ==
    {Record(id, ty, <<"w">>, v, ttl, <<"a">>) :
        id \in {Empty, <<"r">>}, ty \in {Empty, <<"T">>}, v \in {Empty, <<"v">>},
        ttl \in {0, 60}}
InputIds == {Empty, <<"r">>}
ClientTokens == {<<"x">>, <<"e">>}

InitClient ==
    /\ pc = "call"
    /\ cmd = "none"
    /\ args = NoArgs
    /\ env = [home |-> TRUE, writable |-> TRUE, token |-> Empty]
    /\ dir = "present"
    /\ file = Absent
    /\ viperSet = Unset
    /\ configFile = NoPath
    /\ cfg = NotLoaded
    /\ \E t \in ClientTokens : client = NewClient(t)
    /\ zones = <<>>
    /\ resolved = NotResolved
    /\ byName = NotResolved
    /\ reqs = <<>>
    /\ result = NoResult
    /\ reported = FALSE
    /\ exitCode = -1
    /\ out = Empty
    /\ saved = NoSave
    /\ call = NoCall
    /\ answer = NoAnswer
    /\ required = MarkedRequired

\* what a call leaves behind: the request sent, what the operation returned
Called(op, arg, req, resp, res) ==
    /\ pc = "call"
    /\ reqs' = Do(reqs, req, resp)
    /\ result' = res
    /\ call' = Call(op, arg)
    /\ answer' = resp
    /\ pc' = "called"
    /\ UNCHANGED <<cmd, args, env, dir, file, viperSet, configFile, cfg, client,
                   zones, resolved, byName, reported, exitCode, out, saved, required>>

CallGetZones(resp) ==
    LET got == GetZones(resp)
    IN  Called("GetZones", Empty, GetZonesRequest(client), resp,
               [op |-> "GetZones", err |-> got.err, zones |-> got.zones])

CallGetRecords(zoneID, resp) ==
    LET got == GetRecords(resp)
    IN  Called("GetRecords", zoneID, GetRecordsRequest(client, zoneID), resp,
               [op |-> "GetRecords", err |-> got.err, records |-> got.records])

CallCreateRecord(record, resp) ==
    LET got == CreateRecord(resp)
    IN  Called("CreateRecord", record, CreateRecordRequest(client, record), resp,
               [op |-> "CreateRecord", err |-> got.err, record |-> got.record])

CallUpdateRecord(record, resp) ==
    LET got == UpdateRecord(resp)
    IN  Called("UpdateRecord", record, UpdateRecordRequest(client, record), resp,
               [op |-> "UpdateRecord", err |-> got.err, record |-> got.record])

CallDeleteRecord(recordID, resp) ==
    LET got == DeleteRecord(resp)
    IN  Called("DeleteRecord", recordID, DeleteRecordRequest(client, recordID), resp,
               [op |-> "DeleteRecord", err |-> got.err])

NextClient ==
    \/ \E resp \in ClientZonesResponses : CallGetZones(resp)
    \/ \E zoneID \in InputIds : \E resp \in ClientRecordsResponses :
          CallGetRecords(zoneID, resp)
    \/ \E record \in InputRecords :
          \E resp \in ClientRecordResponses(MarshalRecord(record)) :
             CallCreateRecord(record, resp)
    \/ \E record \in InputRecords :
          \E resp \in ClientRecordResponses(MarshalRecord(record)) :
             CallUpdateRecord(record, resp)
    \/ \E recordID \in InputIds : \E resp \in ClientDeleteResponses :
          CallDeleteRecord(recordID, resp)

SpecClient == InitClient /\ [][NextClient]_vars

(***************************************************************************)
(* Properties                                                              *)
(***************************************************************************)
\* one trailing dot removed, as the specification words it
StripOneTrailingDot(s) ==
    IF s # <<>> /\ s[Len(s)] = "." THEN [i \in 1..(Len(s) - 1) |-> s[i]] ELSE s

SameLetters(x, y) ==
    /\ Len(x) = Len(y)
    /\ \A i \in 1..Len(x) :
          x[i] = y[i] \/ {x[i], y[i]} = {"a", "A"} \/ {x[i], y[i]} = {"b", "B"}

\* two names that differ only by letter case or by a single trailing dot
EquivalentNames(x, y) == SameLetters(StripOneTrailingDot(x), StripOneTrailingDot(y))

\* resolveZoneID has returned, and the zone list it worked on was fetched
ResolvedOnList == resolved.err.kind \in {"none", "notfound"}
CalledOnList == byName.err.kind \in {"none", "notfound"}

IdHits == {i \in 1..Len(zones) : zones[i].ID = args.zone}
NameHits == {i \in 1..Len(zones) : EquivalentNames(zones[i].Name, args.zone)}
IsFirst(i, S) == i \in S /\ \A k \in S : i <= k

\* C1: when some zone's raw id equals the input verbatim, resolution returns
\* the id of the first such zone, whatever zone (earlier or later) has a
\* normalized name equal to the input; a name match is returned only when no
\* zone id equals the input.
C1_IdentifierFirst ==
    ResolvedOnList =>
        /\ \A i \in 1..Len(zones) : IsFirst(i, IdHits) => resolved = Found(zones[i].ID)
        /\ (resolved.err.kind = "none" /\ IdHits = {}) =>
               \E j \in NameHits : resolved.id = zones[j].ID

\* an id match wins over a name match that stands earlier in the list and
\* belongs to a zone with another id
C1_Witness ==
    /\ resolved.err.kind = "none"
    /\ \E i \in IdHits : \E j \in NameHits :
          j < i /\ zones[j].ID # args.zone /\ resolved.id = zones[i].ID

\* C2: resolution never returns an empty identifier together with success:
\* on every zone list the decoder produces it returns a non-empty id or
\* fails with the not-found error.
C2_NeverEmptyIdentifier ==
    ResolvedOnList =>
        \/ resolved.err.kind = "none" /\ resolved.id # Empty
        \/ resolved.err.kind = "notfound"

IsMutating(r) == r.method \in {"POST", "PUT", "DELETE"}
IsZoneList(r) == r.method = "GET" /\ r.path = "/zones"

\* C3 as stated: every mutating request (POST, PUT or DELETE) is sent only
\* after a zone-list request succeeded and resolution returned a zone id.
C3_EveryMutationResolvesFirst ==
    \A i \in 1..Len(reqs) :
        IsMutating(reqs[i]) =>
            /\ \E j \in 1..(i - 1) : IsZoneList(reqs[j])
            /\ resolved.err.kind = "none"

\* C3, amended: record create and record update send their POST or PUT only
\* after a zone-list request succeeded and resolution returned without
\* error, carrying the id it returned, and send nothing when resolution
\* fails; record delete sends its DELETE with no zone-list request before it.
C3_CreateAndUpdateResolveFirst ==
    /\ \A i \in 1..Len(reqs) :
          reqs[i].method \in {"POST", "PUT"} =>
              /\ \E j \in 1..(i - 1) : IsZoneList(reqs[j])
              /\ resolved.err.kind = "none"
              /\ reqs[i].body.zone_id = JStr(resolved.id)
    /\ (resolved.err.kind \notin {"none", "pending"}) =>
          \A i \in 1..Len(reqs) : ~IsMutating(reqs[i])
    /\ \A i \in 1..Len(reqs) :
          reqs[i].method = "DELETE" => i = 1 /\ resolved.err.kind = "pending"

\* an update whose PUT followed the zone list and carries the resolved id
C3_Witness ==
    /\ cmd = "record update"
    /\ Len(reqs) = 2
    /\ IsZoneList(reqs[1])
    /\ reqs[2].method = "PUT"
    /\ resolved.id = <<"a">>

\* C4: every run that reports an error ends with a non-zero exit status.
C4_ReportedErrorExitsNonZero ==
    (pc = "done" /\ reported) => exitCode # 0

\* C5: names that differ only by letter case or by a single trailing dot are
\* equivalent for name matching: when no zone id equals the input and some
\* zone's name is equivalent to it, resolution succeeds with the id of the
\* (first) zone so named; Client.GetZoneIDByName does the same and fails when
\* no zone name is equivalent.
C5_NamesEquivalent ==
    /\ (ResolvedOnList /\ IdHits = {}) =>
          /\ NameHits # {} => resolved.err.kind = "none"
          /\ \A i \in 1..Len(zones) : IsFirst(i, NameHits) => resolved = Found(zones[i].ID)
    /\ CalledOnList =>
          /\ \A i \in 1..Len(zones) : IsFirst(i, NameHits) => byName = Found(zones[i].ID)
          /\ NameHits = {} => byName.err.kind = "notfound"

\* the input "A." finds the zone named "a"
C5_Witness ==
    /\ args.zone = <<"A", ".">>
    /\ IdHits = {}
    /\ \E i \in 1..Len(zones) :
          /\ zones[i].Name = <<"a">>
          /\ zones[i].ID # Empty
          /\ resolved = Found(zones[i].ID)

\* C6: the identifier phase is exact: a resolution that succeeds returns the
\* id of a zone whose id equals the input verbatim or whose name is
\* equivalent to it, so an input that differs from every id (if only by case
\* or a trailing dot) and matches no name is not found.
C6_IdentifierPhaseExact ==
    /\ resolved.err.kind = "none" =>
          \/ \E i \in IdHits : resolved.id = zones[i].ID
          \/ \E j \in NameHits : resolved.id = zones[j].ID
    /\ (ResolvedOnList /\ IdHits = {} /\ NameHits = {}) => resolved.err.kind = "notfound"

\* the input differs from a zone's id only by case or a trailing dot, and
\* is not found
C6_Witness ==
    /\ resolved.err.kind = "notfound"
    /\ \E i \in 1..Len(zones) :
          zones[i].ID # args.zone /\ EquivalentNames(zones[i].ID, args.zone)

\* C7: LoadConfig returns an error whenever the configuration file exists
\* but cannot be parsed.
C7_UnparseableFileFails ==
    (pc = "loaded" /\ file.exists /\ ~ParseConfig(file.text).ok) => cfg.err.kind # "none"

\* C8 as stated: with a home directory and no configuration file, LoadConfig
\* succeeds with the token of the environment (empty when unset), whether
\* or not the directory exists or can be created.
C8_AbsentFileNeverFails ==
    (pc = "loaded" /\ env.home /\ ~file.exists) =>
        cfg.err.kind = "none" /\ cfg.token = env.token

\* C8, amended: with a home directory, no configuration file, and a
\* configuration directory that exists or can be created, LoadConfig succeeds
\* with the token of the environment (empty when unset).
C8_AbsentFileWithDirectory ==
    (pc = "loaded" /\ env.home /\ ~file.exists /\ ~(dir = "absent" /\ ~env.writable)) =>
        cfg.err.kind = "none" /\ cfg.token = env.token /\ dir = "present"

C8_Witness ==
    /\ pc = "loaded"
    /\ env.home
    /\ ~file.exists
    /\ cfg.read = "notexist"
    /\ cfg.err.kind = "none"
    /\ env.token # Empty
    /\ cfg.token = env.token

\* the api_token a well-formed file holds, Empty when it holds none
FileToken ==
    IF file.exists /\ ParseConfig(file.text).ok /\ ParseConfig(file.text).has
    THEN ParseConfig(file.text).val
    ELSE Empty

\* C9: when LoadConfig succeeds, a non-empty HETZNER_DNS_API_TOKEN is the
\* token whatever the file holds; without it the file's api_token is; with
\* neither the token is empty.
C9_EnvironmentFirst ==
    (pc = "loaded" /\ cfg.err.kind = "none") =>
        /\ env.token # Empty => cfg.token = env.token
        /\ env.token = Empty => cfg.token = FileToken
        /\ (env.token = Empty /\ ~file.exists) => cfg.token = Empty

\* the environment wins over a file that holds another token
C9_Witness ==
    /\ pc = "loaded"
    /\ cfg.err.kind = "none"
    /\ env.token # Empty
    /\ FileToken # Empty
    /\ FileToken # env.token
    /\ cfg.token = env.token

\* C10: after a successful config set of a token, a later LoadConfig without
\* environment override returns exactly that token, whether the file was
\* newly created or already existed.
C10_RoundTrip ==
    (pc = "loaded" /\ cfg.err.kind = "none" /\ env.token = Empty /\ saved.how # "none") =>
        cfg.token = saved.tok

\* C11: after every successful SaveConfig the configuration file is readable
\* by its owner only, whether SaveConfig created it or overwrote a file that
\* had wider permissions.
C11_OwnerOnlyAfterSave ==
    (result.op = "SaveConfig" /\ result.err.kind = "none") =>
        file.exists /\ file.mode = "0600"

\* C12: after a failed SaveConfig on an existing configuration file that held
\* a token, the file holds a complete configuration: what it held before, or the new token;
\* never a truncated or empty one.
C12_FailedSaveKeepsConfiguration ==
    (/\ result.op = "SaveConfig"
     /\ result.err.kind # "none"
     /\ result.before.exists
     /\ ParseConfig(result.before.text).has) =>
        \/ file = result.before
        \/ /\ file.exists
           /\ ParseConfig(file.text).ok
           /\ ParseConfig(file.text).has
           /\ ParseConfig(file.text).val = args.token

ClientOperations ==
    {"GetZones", "GetRecords", "CreateRecord", "UpdateRecord", "DeleteRecord"}

\* the method and path of the one request an operation sends
IsRequestOf(r, op) ==
    CASE op = "GetZones" -> r.method = "GET" /\ r.path = "/zones"
      [] op = "GetRecords" -> r.method = "GET" /\ r.path = "/records"
      [] op = "CreateRecord" -> r.method = "POST" /\ r.path = "/records"
      [] op = "UpdateRecord" -> r.method = "PUT" /\ r.path = "/records/"
      [] op = "DeleteRecord" -> r.method = "DELETE" /\ r.path = "/records/"
      [] OTHER -> FALSE

\* the provider did not answer, or answered outside 2xx
Refused(resp) == ~resp.ok \/ resp.status < 200 \/ resp.status > 299

\* C13: a process has sent exactly one HTTP request for each call it made,
\* whatever the answers were: one GET /zones for the resolution, first, and
\* one request of the operation's kind for the client operation; when the
\* provider does not answer or refuses, the call returns an error at once
\* and nothing is sent again.
C13_OneRequestPerCall ==
    LET resolution == IF resolved.err.kind # "pending" THEN 1 ELSE 0
        operation == IF result.op \in ClientOperations THEN 1 ELSE 0
    IN  /\ Len(reqs) = resolution + operation
        /\ resolution = 1 => IsZoneList(reqs[1])
        /\ operation = 1 => IsRequestOf(reqs[Len(reqs)], result.op)
        /\ (call.op # "none" /\ Refused(answer)) =>
              IF operation = 1 THEN result.err.kind \in {"transport", "api"}
              ELSE resolved.err.kind \in {"transport", "api"}

\* a record list whose resolution succeeded and whose GetRecords was refused
\* with 500: two requests, the error returned
C13_Witness ==
    /\ cmd = "record list"
    /\ Len(reqs) = 2
    /\ answer.ok /\ answer.status = 500
    /\ result.err.kind = "api"

\* the statuses each operation takes for success, as the specification
\* lists them
SuccessStatuses(op) ==
    CASE op = "GetZones" -> {200}
      [] op = "GetRecords" -> {200}
      [] op = "CreateRecord" -> {200, 201}
      [] op = "UpdateRecord" -> {200}
      [] op = "DeleteRecord" -> {200, 204}

\* the key of the envelope an operation reads, and the JSON type it expects
EnvelopeKey(op) ==
    CASE op = "GetZones" -> "zones"
      [] op = "GetRecords" -> "records"
      [] OTHER -> "record"
EnvelopeType(op) == IF op \in {"GetZones", "GetRecords"} THEN "array" ELSE "object"

ReadsEnvelope(op) == op \in {"GetZones", "GetRecords", "CreateRecord", "UpdateRecord"}

\* the document is a JSON object holding the envelope key with its type
WellFormed(body, op) ==
    /\ body.t = "object"
    /\ body[EnvelopeKey(op)].t = EnvelopeType(op)

\* the operation returned no result value beside its error
NoResultValue ==
    CASE result.op = "GetZones" -> result.zones = <<>>
      [] result.op = "GetRecords" -> result.records = <<>>
      [] result.op \in {"CreateRecord", "UpdateRecord"} -> result.record = NoRecord
      [] OTHER -> TRUE

Answered == call.op \in ClientOperations /\ answer.ok

\* C14: an operation fails with the API error exactly when the status is
\* outside its success set (zones {200}, records {200}, create {200, 201},
\* update {200}, delete {200, 204}); outside the set it returns an error and
\* no result, inside it succeeds whenever the document is well-formed.
C14_SuccessStatuses ==
    Answered =>
        /\ answer.status \notin SuccessStatuses(call.op) =>
              result.err.kind = "api" /\ NoResultValue
        /\ answer.status \in SuccessStatuses(call.op) =>
              /\ result.err.kind # "api"
              /\ (~ReadsEnvelope(call.op) \/ WellFormed(answer.body, call.op)) =>
                    result.err.kind = "none"

\* an update answered 201 with a well-formed record fails, and a create
\* answered 201 succeeds
C14_Witness ==
    /\ answer.ok /\ answer.status = 201
    /\ WellFormed(answer.body, "UpdateRecord")
    /\ call.op = "UpdateRecord"
    /\ result.err.kind = "api"
    /\ result.record = NoRecord

\* C15: when the provider answers with a status outside the success set,
\* the operation returns an API error that carries that status code and the
\* response body as received, and no result value.
C15_ApiErrorCarriesStatusAndBody ==
    (Answered /\ answer.status \notin SuccessStatuses(call.op)) =>
        /\ result.err = [kind |-> "api", status |-> answer.status, body |-> answer.body]
        /\ NoResultValue

\* DeleteRecord of an id the provider does not know: 404 and its body
C15_Witness ==
    /\ call.op = "DeleteRecord"
    /\ answer.ok /\ answer.status = 404 /\ answer.body = NotJSON
    /\ result.err.kind = "api"
    /\ result.err.status = 404
    /\ result.err.body = NotJSON

\* C16: a success-status response whose document is a JSON object without
\* the envelope key, or with the key holding another JSON type, makes
\* GetZones, GetRecords, CreateRecord and UpdateRecord fail with the
\* "unexpected response format" error for that key and return no result.
C16_EnvelopeMismatchFails ==
    (/\ Answered
     /\ ReadsEnvelope(call.op)
     /\ answer.status \in SuccessStatuses(call.op)
     /\ answer.body.t = "object"
     /\ ~WellFormed(answer.body, call.op)) =>
        /\ result.err = [kind |-> "format", key |-> EnvelopeKey(call.op)]
        /\ NoResultValue

\* a record list answered 200 with a document that has no records key
C16_Witness ==
    /\ call.op = "GetRecords"
    /\ answer.ok /\ answer.status = 200
    /\ answer.body = NoEnvelope
    /\ result.err.kind = "format"
    /\ result.records = <<>>

IsObject(e) == e.t = "object"

\* the field holds the key's value when the key is present with the
\* expected type, the zero value otherwise
StringFrom(field, v) == field = (IF v.t = "string" THEN v.s ELSE Empty)
NumberFrom(field, v) == field = (IF v.t = "number" THEN v.n ELSE 0)

ZoneFrom(z, e) ==
    /\ StringFrom(z.ID, e.id)
    /\ StringFrom(z.Name, e.name)
    /\ NumberFrom(z.TTL, e.ttl)
    /\ NumberFrom(z.RecordsCount, e.records_count)

\* the six fields the commands use
RecordFrom(r, e) ==
    /\ StringFrom(r.ID, e.id)
    /\ StringFrom(r.Type, e.type)
    /\ StringFrom(r.Name, e.name)
    /\ StringFrom(r.Value, e.value)
    /\ NumberFrom(r.TTL, e.ttl)
    /\ StringFrom(r.ZoneID, e.zone_id)

\* the two timestamps of a Record
TimestampsFrom(r, e) ==
    /\ StringFrom(r.Created, e.created)
    /\ StringFrom(r.Modified, e.modified)

\* the list holds one entry per object element, in the order of the array
EntryPerObject(list, elems, Entry(_, _)) ==
    LET objects == SelectSeq(elems, IsObject)
    IN  /\ Len(list) = Len(objects)
        /\ \A k \in 1..Len(objects) : Entry(list[k], objects[k])

ListAnswered(op) ==
    /\ call.op = op
    /\ answer.ok
    /\ answer.status = 200
    /\ WellFormed(answer.body, op)

\* the part of C17 that leaves the timestamps of records aside
LenientListsButTimestamps ==
    /\ ListAnswered("GetZones") =>
          /\ result.err.kind = "none"
          /\ EntryPerObject(result.zones, answer.body.zones.elems, ZoneFrom)
    /\ ListAnswered("GetRecords") =>
          /\ result.err.kind = "none"
          /\ EntryPerObject(result.records, answer.body.records.elems, RecordFrom)

\* C17: on a success response with a well-formed envelope GetZones and
\* GetRecords never fail and return, in the order of the array, one entry
\* per element that is an object, elements that are no objects being
\* skipped; in every entry each field holds the value of its key when the
\* key is present with the expected type and the zero value otherwise.
C17_LenientListDecoding ==
    /\ LenientListsButTimestamps
    /\ ListAnswered("GetRecords") =>
          EntryPerObject(result.records, answer.body.records.elems, TimestampsFrom)

\* the record the provider answered is the one sent, with an id assigned
IsEcho(rec, sent) ==
    /\ rec.t = "object"
    /\ rec.id.t = "string" /\ rec.id.s # Empty
    /\ rec.type = sent.type
    /\ rec.name = sent.name
    /\ rec.value = sent.value
    /\ rec.ttl = sent.ttl
    /\ rec.zone_id = sent.zone_id

\* C18: CreateRecord of a record with an empty id, answered with a success
\* status and a record envelope that echoes what was sent with an assigned
\* id, returns a record with that id and with the type, name, value, ttl
\* and zone id of the record passed.
C18_CreateRoundTrip ==
    (/\ call.op = "CreateRecord"
     /\ call.arg.ID = Empty
     /\ answer.ok
     /\ answer.status \in {200, 201}
     /\ answer.body.t = "object"
     /\ IsEcho(answer.body.record, reqs[1].body)) =>
        /\ result.err.kind = "none"
        /\ result.record.ID = answer.body.record.id.s
        /\ result.record.ID # Empty
        /\ result.record.Type = call.arg.Type
        /\ result.record.Name = call.arg.Name
        /\ result.record.Value = call.arg.Value
        /\ result.record.TTL = call.arg.TTL
        /\ result.record.ZoneID = call.arg.ZoneID

\* a record with a ttl comes back with the id "n" and the same ttl
C18_Witness ==
    /\ call.op = "CreateRecord"
    /\ call.arg.ID = Empty
    /\ call.arg.TTL = 60
    /\ call.arg.Type = <<"T">>
    /\ answer.ok /\ answer.status = 201
    /\ answer.body.t = "object"
    /\ IsEcho(answer.body.record, reqs[1].body)
    /\ result.err.kind = "none"
    /\ result.record.ID = <<"n">>
    /\ result.record.TTL = 60

\* C19 as stated: the body CreateRecord posts never holds the id key,
\* whatever record was passed.
C19_PostBodyNeverHasId ==
    \A i \in 1..Len(reqs) : reqs[i].method = "POST" => reqs[i].body.id = JMissing

\* C19, amended: the body CreateRecord posts holds no id key when the record
\* passed has an empty id, and holds the id passed when it has one; the
\* other keys are those of the record passed.
C19_PostBodyOmitsEmptyId ==
    (call.op = "CreateRecord") =>
        /\ Len(reqs) = 1
        /\ reqs[1].method = "POST"
        /\ call.arg.ID = Empty => reqs[1].body.id = JMissing
        /\ call.arg.ID # Empty => reqs[1].body.id = JStr(call.arg.ID)
        /\ reqs[1].body.type = JStr(call.arg.Type)
        /\ reqs[1].body.name = JStr(call.arg.Name)
        /\ reqs[1].body.value = JStr(call.arg.Value)
        /\ reqs[1].body.zone_id = JStr(call.arg.ZoneID)

\* a record without id was posted without the id key
C19_Witness ==
    /\ call.op = "CreateRecord"
    /\ call.arg.ID = Empty
    /\ reqs[1].method = "POST"
    /\ reqs[1].body.id = JMissing
    /\ reqs[1].body.type = JStr(<<"T">>)

\* C20: every request a process sends carries the header Auth-API-Token
\* with the token the client was made with (the token LoadConfig returned)
\* and with no other value, and every request with a body carries
\* Content-Type: application/json.
C20_HeadersOnEveryRequest ==
    \A i \in 1..Len(reqs) :
        /\ client.made
        /\ client.apiToken = cfg.token
        /\ <<"Auth-API-Token", cfg.token>> \in reqs[i].headers
        /\ \A h \in reqs[i].headers : h[1] = "Auth-API-Token" => h[2] = cfg.token
        /\ reqs[i].body # NoBody =>
              <<"Content-Type", "application/json">> \in reqs[i].headers

\* an update: the GET and the PUT both carry the token of the environment,
\* the PUT carries a body and the content type
C20_Witness ==
    /\ cmd = "record update"
    /\ Len(reqs) = 2
    /\ cfg.token = <<"e">>
    /\ <<"Auth-API-Token", <<"e">>>> \in reqs[1].headers
    /\ <<"Auth-API-Token", <<"e">>>> \in reqs[2].headers
    /\ reqs[2].body # NoBody
    /\ <<"Content-Type", "application/json">> \in reqs[2].headers

\* what a string flag of the running command holds: its value when it was
\* given, the empty string when it was not
FlagString(name) == IF name \in args.given THEN args[name] ELSE Empty
\* the ttl the command line asks for: none when --ttl is absent or 0
AskedTTL == IF "ttl" \in args.given /\ args.ttl # 0 THEN JNum(args.ttl) ELSE JMissing

\* C21: record update always sends the full record.  Every PUT body holds
\* the keys type, name, value and zone_id; each holds the value of its flag,
\* the empty string when the flag was absent or given empty, and zone_id
\* the resolved id.  The key ttl is missing exactly when the ttl asked for
\* is 0, be it by --ttl 0 or by no --ttl at all, and holds the number
\* otherwise.
C21_UpdateSendsFullRecord ==
    \A i \in 1..Len(reqs) :
        reqs[i].method = "PUT" =>
            /\ cmd = "record update"
            /\ reqs[i].param = FlagString("id")
            /\ reqs[i].body.type = JStr(FlagString("type"))
            /\ reqs[i].body.name = JStr(FlagString("name"))
            /\ reqs[i].body.value = JStr(FlagString("value"))
            /\ reqs[i].body.zone_id = JStr(resolved.id)
            /\ reqs[i].body.ttl = AskedTTL
            /\ (reqs[i].body.ttl = JMissing) <=> (~("ttl" \in args.given) \/ args.ttl = 0)

\* an update with --ttl 0 and no --name, --type or --value: the PUT body
\* holds the three keys with empty strings and no ttl
C21_Witness ==
    /\ cmd = "record update"
    /\ args.given = {"id", "zone", "ttl"}
    /\ args.ttl = 0
    /\ Len(reqs) = 2
    /\ reqs[2].method = "PUT"
    /\ reqs[2].body.name = JStr(Empty)
    /\ reqs[2].body.type = JStr(Empty)
    /\ reqs[2].body.value = JStr(Empty)
    /\ reqs[2].body.zone_id = JStr(resolved.id)
    /\ resolved.id # Empty
    /\ reqs[2].body.ttl = JMissing

\* no zone before position i is among the hits S
NoneBefore(i, S) == \A k \in 1..(i - 1) : k \notin S

\* C22: within each phase the resolver returns the first match in the order
\* the provider returned the zones.  A successful resolution returns the id
\* of the zone at the earliest position whose id equals the input, or, when
\* no id equals the input, of the zone at the earliest position whose name is
\* equivalent to it; GetZoneIDByName returns the id of the earliest zone
\* with an equivalent name.  The answer is thus fixed by the list and the
\* input.
C22_FirstMatchInOrder ==
    /\ (ResolvedOnList /\ resolved.err.kind = "none") =>
          \E i \in 1..Len(zones) :
              /\ resolved.id = zones[i].ID
              /\ \/ i \in IdHits /\ NoneBefore(i, IdHits)
                 \/ IdHits = {} /\ i \in NameHits /\ NoneBefore(i, NameHits)
    /\ (CalledOnList /\ byName.err.kind = "none") =>
          \E i \in 1..Len(zones) :
              /\ byName.id = zones[i].ID
              /\ i \in NameHits /\ NoneBefore(i, NameHits)

\* two zones with equivalent names and different ids, an input that is the
\* id of neither: the id of the earlier zone is returned
C22_Witness ==
    /\ Len(zones) = 2
    /\ IdHits = {}
    /\ NameHits = {1, 2}
    /\ zones[1].ID # Empty /\ zones[2].ID # Empty
    /\ zones[1].ID # zones[2].ID
    /\ resolved = Found(zones[1].ID)

\* LoadConfig returned, with an error or with an empty token
Unusable == cfg.err.kind \notin {"pending", "none"} \/ (cfg.err.kind = "none" /\ cfg.token = Empty)

\* C23: an API command (zone list, record list, record create, record
\* update, record delete) whose LoadConfig failed or returned an empty token
\* sends no HTTP request and makes no client: it calls no client operation,
\* and once its handler has returned it has reported the problem.
C23_NoRequestWithoutToken ==
    (cmd \in ApiCommands /\ Unusable) =>
        /\ reqs = <<>>
        /\ ~client.made
        /\ call = NoCall
        /\ pc \in {"loaded", "return", "done"}
        /\ pc \in {"return", "done"} => reported

\* record delete with every flag given, no token in the file or in the
\* environment: the process ended having reported and sent nothing
C23_Witness ==
    /\ cmd = "record delete"
    /\ args.given = {"id"}
    /\ pc = "done"
    /\ cfg.err.kind = "none"
    /\ cfg.token = Empty
    /\ reported
    /\ reqs = <<>>
    /\ ~client.made

\* C24 as stated: SaveConfig works on the value LoadConfig left in the
\* package variable.  Called before any LoadConfig of its process it sees
\* the empty path, returns an error and leaves the per-user file as it was;
\* called after any LoadConfig it works on the per-user path.
C24_PathSetByAnyLoadConfig ==
    (result.op = "SaveConfig") =>
        /\ ~result.afterLoad =>
              /\ result.path = NoPath
              /\ result.err.kind # "none"
              /\ file = result.before
        /\ result.afterLoad => result.path = ConfigPath

\* C24, amended: called before any LoadConfig of its process, SaveConfig
\* sees the empty path, returns an error and leaves the per-user file as it
\* was; called after a LoadConfig that found the home directory it works on
\* the per-user path.  A LoadConfig that failed to find the home directory
\* leaves the path empty, and SaveConfig then fails as if called first.
\* The per-user file changes only when the path was set.
C24_PathSetByLoadConfigWithHome ==
    (result.op = "SaveConfig") =>
        /\ ~result.afterLoad =>
              /\ result.path = NoPath
              /\ result.err.kind # "none"
              /\ file = result.before
        /\ (result.afterLoad /\ env.home) => result.path = ConfigPath
        /\ (result.afterLoad /\ ~env.home) =>
              /\ result.path = NoPath
              /\ result.err.kind # "none"
              /\ file = result.before
        /\ file # result.before => result.path = ConfigPath

\* a process with a home directory it may write to calls SaveConfig first:
\* the call fails on the empty path and no file appears
C24_Witness ==
    /\ result.op = "SaveConfig"
    /\ ~result.afterLoad
    /\ env.home /\ env.writable
    /\ result.path = NoPath
    /\ result.err.kind = "write"
    /\ ~result.before.exists
    /\ ~file.exists

\* C25: llmhelp reports required: true for exactly the flags the command
\* definitions marked as required and required: false for every other flag
\* (record update's --name, --type, --value and --ttl among them), and
\* producing the report leaves the set of required flags as the definitions
\* made it.
C25_ReportTellsRequiredFlags ==
    (cmd = "llmhelp") =>
        /\ required = MarkedRequired
        /\ pc \in {"return", "done"} =>
              /\ \A c \in Commands : \A f \in Flags(c) :
                    \E o \in out : o.command = c /\ o.name = f
              /\ \A o \in out : o.required <=> (o.name \in RequiredFlags(o.command))

\* config show has printed the token line
Shown == cmd = "config show" /\ pc \in {"return", "done"} /\ cfg.err.kind = "none"

\* C26: config show never prints the complete token.  For a token of more
\* than 8 characters the line holds its first 4 characters, three dots and
\* its last 4 characters and nothing else; for a non-empty token of at most
\* 8 characters it holds "********"; for the empty token it holds
\* "Not set".  Some character of every non-empty token stays hidden: another
\* token of the same length is printed as the very same line.
C26_TokenStaysMasked ==
    Shown =>
        LET t == cfg.token
            n == Len(cfg.token)
        IN  /\ n = 0 => out = <<"Not set">>
            /\ (n >= 1 /\ n <= 8) => out = <<"********">>
            /\ n > 8 =>
                  /\ Len(out) = 11
                  /\ \A i \in 1..4 : out[i] = t[i] /\ out[7 + i] = t[n - 4 + i]
                  /\ \A i \in 5..7 : out[i] = "."
            /\ n >= 1 => \E u \in ShowTokens : Len(u) = n /\ u # t /\ Masked(u) = out

\* a token of 9 characters: 8 of them are printed, the fifth is not
C26_Witness ==
    /\ Shown
    /\ pc = "done"
    /\ cfg.token = <<"a", "a", "a", "a", "b", "b", "b", "b", "b">>
    /\ out = <<"a", "a", "a", "a", ".", ".", ".", "b", "b", "b", "b">>

====
